---- MODULE Spec2Model ----
(***************************************************************************)
(* drizzle-query-factory: parseListQuery (src/src/parse-list-query.ts),    *)
(* applyOperator / runListQuery / listResponse (src/src/types.ts).         *)
(*                                                                         *)
(* Strings that the code inspects character by character (parameter        *)
(* values) are sequences of one-character strings; parameter names and     *)
(* configuration keys are TLA+ strings.  Str converts the former to the    *)
(* latter.  drizzle-orm's builders (eq, like, inArray, and, asc, desc...)  *)
(* are opaque constructors: records that keep their arguments.             *)
(***************************************************************************)
EXTENDS Integers, Sequences, FiniteSets, TLC

VARIABLES
    input,     \* the request handed to parseListQuery
    config,    \* the ListQueryConfig
    pc,        \* where the call is: start, done, threw, awaiting, resolved, rejected, returned
    parsed,    \* what parseListQuery returned, with its locals
    opts,      \* the options of a runListQuery call
    table,     \* the number of rows of the table that match the effective condition
    writes,    \* the writes to the table made while the call was awaiting
    issued,    \* the queries the call has issued, in order
    pending,   \* the issued queries that have not completed
    rows,      \* the rows the row query returned
    countRes,  \* the records the count query returned
    result,    \* what runListQuery resolved with
    direct,    \* the arguments of a direct call of listResponse
    answered,  \* the queries the data store has answered, in order, each with the table size it met
    inv        \* the locals of each of several calls of parseListQuery under one config

vars == <<input, config, pc, parsed, opts, table, writes, issued, pending, rows, countRes, result, direct, inv, answered>>

runVars == <<opts, table, writes, issued, pending, rows, countRes, result, answered>>

-----------------------------------------------------------------------------
(* Bounds of the model *)

MaxLen == 3

MaxPairs == 2

MaxRows == 3

MaxWrites == 1

-----------------------------------------------------------------------------
(* Program constants *)

DEFAULT_LIMIT == 20

MAX_LIMIT == 100

RESERVED_PARAMS == {"sort", "order", "limit", "offset"}

-----------------------------------------------------------------------------
(* Strings *)

RECURSIVE Str(_)
Str(s) == IF s = <<>> THEN "" ELSE Head(s) \o Str(Tail(s))

Digits == <<"0", "1", "2", "3", "4", "5", "6", "7", "8", "9">>

IsDigit(c) == \E d \in 1..10 : Digits[d] = c

DigitVal(c) == (CHOOSE d \in 1..10 : Digits[d] = c) - 1

IsWhiteSpace(c) == c = " "

RECURSIVE SkipWhiteSpace(_)
SkipWhiteSpace(s) ==
    IF s # <<>> /\ IsWhiteSpace(Head(s)) THEN SkipWhiteSpace(Tail(s)) ELSE s

RECURSIVE DigitPrefix(_)
DigitPrefix(s) ==
    IF s # <<>> /\ IsDigit(Head(s)) THEN <<Head(s)>> \o DigitPrefix(Tail(s)) ELSE <<>>

RECURSIVE DecimalValue(_)
DecimalValue(ds) ==
    IF ds = <<>> THEN 0
    ELSE 10 * DecimalValue(SubSeq(ds, 1, Len(ds) - 1)) + DigitVal(ds[Len(ds)])

\* A JavaScript number as far as the code can tell the cases apart.
NaN == [nan |-> TRUE, n |-> 0]

Num(n) == [nan |-> FALSE, n |-> n]

\* parseInt(raw, 10): leading white space is skipped, one sign is accepted,
\* then the longest run of decimal digits is read; no digit gives NaN.
parseInt(raw) ==
    LET s    == SkipWhiteSpace(raw)
        sgn  == IF s # <<>> /\ Head(s) = "-" THEN -1 ELSE 1
        body == IF s # <<>> /\ Head(s) \in {"+", "-"} THEN Tail(s) ELSE s
        ds   == DigitPrefix(body)
    IN  IF ds = <<>> THEN NaN ELSE Num(sgn * DecimalValue(ds))

RECURSIVE DigitPrefixIn(_, _)
DigitPrefixIn(s, radix) ==
    IF s # <<>> /\ IsDigit(Head(s)) /\ DigitVal(Head(s)) < radix
    THEN <<Head(s)>> \o DigitPrefixIn(Tail(s), radix)
    ELSE <<>>

RECURSIVE RadixValue(_, _)
RadixValue(ds, radix) ==
    IF ds = <<>> THEN 0
    ELSE radix * RadixValue(SubSeq(ds, 1, Len(ds) - 1), radix) + DigitVal(ds[Len(ds)])

\* parseInt(raw, radix) for a radix of 0..10: 0 stands for 10, 1 gives NaN,
\* and a digit counts only when it is below the radix.
parseIntRadix(raw, radix) ==
    LET s    == SkipWhiteSpace(raw)
        sgn  == IF s # <<>> /\ Head(s) = "-" THEN -1 ELSE 1
        body == IF s # <<>> /\ Head(s) \in {"+", "-"} THEN Tail(s) ELSE s
        r    == IF radix = 0 THEN 10 ELSE radix
        ds   == DigitPrefixIn(body, r)
    IN  IF r < 2 \/ ds = <<>> THEN NaN ELSE Num(sgn * RadixValue(ds, r))

\* The upper limit handed to parseIntClamped: a number or Infinity.
Infinity == [finite |-> FALSE, n |-> 0]

Finite(n) == [finite |-> TRUE, n |-> n]

MathMin(max, x) == IF max.finite /\ max.n < x THEN max.n ELSE x

MathMax(min, x) == IF min > x THEN min ELSE x

\* params.get(name) gives null when no pair has that name.
Null == [present |-> FALSE, value |-> <<>>]

Some(v) == [present |-> TRUE, value |-> v]

parseIntClamped_NoClamp(raw, min, max, fallback) ==
    IF ~raw.present THEN fallback
    ELSE LET p == parseInt(raw.value)
         IN  IF p.nan THEN fallback ELSE p.n

parseIntClamped_Round(raw, min, max, fallback) ==
    IF ~raw.present THEN fallback
    ELSE LET p == parseInt(raw.value)
             s == SkipWhiteSpace(raw.value)
             b == IF s # <<>> /\ Head(s) \in {"+", "-"} THEN Tail(s) ELSE s
             r == SubSeq(b, Len(DigitPrefix(b)) + 1, Len(b))
             up == Len(r) >= 2 /\ r[1] = "." /\ IsDigit(r[2]) /\ DigitVal(r[2]) >= 5
         IN  IF p.nan THEN fallback
             ELSE MathMax(min, MathMin(max, IF up THEN p.n + 1 ELSE p.n))

parseIntClamped(raw, min, max, fallback) ==
    IF ~raw.present THEN fallback
    ELSE LET p == parseInt(raw.value)
         IN  IF p.nan THEN fallback
             ELSE MathMax(min, MathMin(max, p.n))

-----------------------------------------------------------------------------
(* Values a coercion function hands to the operators *)

StrV(s) == [t |-> "string", s |-> s]

NumV(p) == [t |-> "number", num |-> p]

ArrV(items) == [t |-> "array", items |-> items]

Undefined == "undefined"

\* Property lookup on a configuration object written as an object literal:
\* names that are not its own are looked up on Object.prototype.
ObjectPrototype == {"constructor", "toString"}

\* What Object.prototype holds under those names: functions, with no
\* column, op or parse property of their own.
PrototypeMember == [inherited |-> TRUE]

\* key in obj
HasProperty(obj, key) == key \in DOMAIN obj \/ key \in ObjectPrototype

\* obj[key] is truthy
Truthy(obj, key) == key \in DOMAIN obj \/ key \in ObjectPrototype

\* obj[key], for a key with Truthy(obj, key)
GetProperty(obj, key) == IF key \in DOMAIN obj THEN obj[key] ELSE PrototypeMember

-----------------------------------------------------------------------------
(* Operator Resolver: applyOperator (operators.ts) *)

RECURSIVE NatToString(_)
NatToString(n) ==
    IF n < 10 THEN <<Digits[n + 1]>>
    ELSE NatToString(n \div 10) \o <<Digits[(n % 10) + 1]>>

RECURSIVE Join(_)
Join(strs) ==
    IF strs = <<>> THEN <<>>
    ELSE IF Len(strs) = 1 THEN strs[1]
    ELSE strs[1] \o <<",">> \o Join(Tail(strs))

\* String(val) inside the template literal of the like operator.
RECURSIVE String(_)
String(val) ==
    IF val.t = "string" THEN val.s
    ELSE IF val.t = "number"
         THEN (IF val.num.nan THEN <<"N", "a", "N">>
               ELSE IF val.num.n < 0 THEN <<"-">> \o NatToString(-val.num.n)
               ELSE NatToString(val.num.n))
         ELSE Join([i \in 1..Len(val.items) |-> String(val.items[i])])

operatorMap(op, col, val) ==
    CASE op = "like" -> [fn |-> "like", column |-> col,
                         value |-> StrV(<<"%">> \o String(val) \o <<"%">>)]
      [] op = "in"   -> [fn |-> "inArray", column |-> col,
                         value |-> IF val.t = "array" THEN val ELSE ArrV(<<val>>)]
      [] OTHER       -> [fn |-> op, column |-> col, value |-> val]

applyOperator(op, column, value) == operatorMap(op, column, value)

-----------------------------------------------------------------------------
(* Input Normalizer: resolveParams *)

Shapes == {"URLSearchParams", "URL", "Request", "Record"}

\* The part of an href after its first "?".
Search(href) ==
    LET marks == {i \in 1..Len(href) : href[i] = "?"}
    IN  IF marks = {} THEN <<>>
        ELSE SubSeq(href, (CHOOSE i \in marks : \A j \in marks : i <= j) + 1, Len(href))

RECURSIVE SplitOn(_, _)
SplitOn(s, sep) ==
    IF \A i \in 1..Len(s) : s[i] # sep THEN <<s>>
    ELSE LET i == CHOOSE j \in 1..Len(s) : s[j] = sep /\ \A k \in 1..(j - 1) : s[k] # sep
         IN  <<SubSeq(s, 1, i - 1)>> \o SplitOn(SubSeq(s, i + 1, Len(s)), sep)

\* The character a percent escape stands for.
Escaped(a, b) ==
    CASE a = "2" /\ b = "B" -> "+"
      [] a = "2" /\ b = "C" -> ","
      [] a = "2" /\ b = "0" -> " "
      [] OTHER              -> "?"

\* Decoding of a name or value of a query string: "+" is a space, "%XY" the
\* character it escapes.
RECURSIVE Decode(_)
Decode(s) ==
    IF s = <<>> THEN <<>>
    ELSE IF Head(s) = "+" THEN <<" ">> \o Decode(Tail(s))
    ELSE IF Head(s) = "%" /\ Len(s) >= 3 THEN <<Escaped(s[2], s[3])>> \o Decode(SubSeq(s, 4, Len(s)))
    ELSE <<Head(s)>> \o Decode(Tail(s))

\* One name=value segment of a query string as a pair; the name ends at the
\* first "=".
ParseSegment(seg) ==
    LET eqs == {i \in 1..Len(seg) : seg[i] = "="}
        at  == IF eqs = {} THEN Len(seg) + 1 ELSE CHOOSE i \in eqs : \A j \in eqs : i <= j
    IN  [key   |-> Str(Decode(SubSeq(seg, 1, at - 1))),
         value |-> Decode(SubSeq(seg, at + 1, Len(seg)))]

RECURSIVE ParseSegments(_)
ParseSegments(segs) ==
    IF segs = <<>> THEN <<>>
    ELSE IF Head(segs) = <<>> THEN ParseSegments(Tail(segs))
    ELSE <<ParseSegment(Head(segs))>> \o ParseSegments(Tail(segs))

\* URL.searchParams: the pairs of the href's query string, in its order.
SearchParams(href) == ParseSegments(SplitOn(Search(href), "&"))

RECURSIVE FirstPerKey(_)
FirstPerKey(ps) ==
    IF ps = <<>> THEN <<>>
    ELSE <<Head(ps)>> \o FirstPerKey(SelectSeq(Tail(ps), LAMBDA p : p.key # Head(ps).key))

resolveParams_RequestAsRecord(in) ==
    CASE in.shape = "URLSearchParams" -> in.pairs
      [] in.shape = "URL"             -> SearchParams(in.href)
      [] in.shape = "Request"         -> FirstPerKey(SearchParams(in.href))
      [] OTHER                        -> in.pairs

\* A URLSearchParams is its list of pairs; a URL and a Request are read
\* through the href; a Record gives one pair per property, in property
\* order.
resolveParams(in) ==
    CASE in.shape = "URLSearchParams" -> in.pairs
      [] in.shape = "URL"             -> SearchParams(in.href)
      [] in.shape = "Request"         -> SearchParams(in.href)
      [] OTHER                        -> in.pairs

RECURSIVE ParamsGet_Last(_, _)
ParamsGet_Last(params, name) ==
    IF params = <<>> THEN Null
    ELSE IF params[Len(params)].key = name THEN Some(params[Len(params)].value)
    ELSE ParamsGet_Last(SubSeq(params, 1, Len(params) - 1), name)

\* URLSearchParams.get(name): the value of the first pair with that name.
RECURSIVE ParamsGet(_, _)
ParamsGet(params, name) ==
    IF params = <<>> THEN Null
    ELSE IF Head(params).key = name THEN Some(Head(params).value)
    ELSE ParamsGet(Tail(params), name)

-----------------------------------------------------------------------------
(* Query Translator: parseListQuery *)

\* A caller-supplied coercion function (ColumnFilter.parse), by kind:
\*   "parseInt"  (v) => parseInt(v, 10)
\*   "strict"    a validating parser that throws on a value with no integer
\*   "bare"      parseInt itself, which reads a second argument as the radix
Coerce(kind, v) ==
    CASE kind = "identity" -> [threw |-> FALSE, value |-> StrV(v)]
      [] kind = "parseInt" -> [threw |-> FALSE, value |-> NumV(parseInt(v))]
      [] kind = "bare"     -> [threw |-> FALSE, value |-> NumV(parseInt(v))]
      [] OTHER             -> [threw |-> parseInt(v).nan, value |-> NumV(parseInt(v))]

\* The coercion function as Array.prototype.map calls it: with the item
\* and the item's index (from 0).
CoerceItem(kind, v, index) ==
    IF kind = "bare" THEN [threw |-> FALSE, value |-> NumV(parseIntRadix(v, index))]
    ELSE Coerce(kind, v)

\* A caller-supplied custom filter (CustomFilter), by kind:
\*   "mine"  (value) => value === "mine" ? sql`...` : undefined
\*   "any"   (value) => sql`... ${value}`
\*   "other" (value) => sql`... ${value}` over another expression
CustomResult(kind, v) ==
    CASE kind = "mine" -> IF v = <<"m", "i", "n", "e">>
                          THEN <<[fn |-> "sql", column |-> "ownerId", value |-> StrV(v)]>>
                          ELSE <<>>
      [] kind = "any"  -> <<[fn |-> "sql", column |-> "custom", value |-> StrV(v)]>>
      [] OTHER         -> <<[fn |-> "sql", column |-> "shadowed", value |-> StrV(v)]>>

\* rawValue.split(",")
RECURSIVE Split(_)
Split(s) ==
    IF \A i \in 1..Len(s) : s[i] # "," THEN <<s>>
    ELSE LET i == CHOOSE j \in 1..Len(s) : s[j] = "," /\ \A k \in 1..(j - 1) : s[k] # ","
         IN  <<SubSeq(s, 1, i - 1)>> \o Split(SubSeq(s, i + 1, Len(s)))

\* segments.map(parse): the calls made, the values, and whether one threw
\* (a throw ends the map).
RECURSIVE MapParseFrom(_, _, _, _)
MapParseFrom(kind, key, segs, index) ==
    IF segs = <<>> THEN [threw |-> FALSE, items |-> <<>>, calls |-> <<>>]
    ELSE LET c    == CoerceItem(kind, Head(segs), index)
             call == [fn |-> "parse", key |-> key, arg |-> Head(segs)]
         IN  IF c.threw THEN [threw |-> TRUE, items |-> <<>>, calls |-> <<call>>]
             ELSE LET r == MapParseFrom(kind, key, Tail(segs), index + 1)
                  IN  [threw |-> r.threw, items |-> <<c.value>> \o r.items,
                       calls |-> <<call>> \o r.calls]

MapParse(kind, key, segs) == MapParseFrom(kind, key, segs, 0)

EmptyAcc == [conditions |-> <<>>, calls |-> <<>>, threw |-> FALSE]

\* The column-filter branch of the loop body (lines 85-100).
ColumnFilterStep(acc, columnFilter, key, rawValue) ==
    LET op     == IF "op" \in DOMAIN columnFilter THEN columnFilter.op ELSE "eq"
        kind   == IF "parse" \in DOMAIN columnFilter THEN columnFilter.parse ELSE "identity"
        column == IF "column" \in DOMAIN columnFilter THEN columnFilter.column ELSE Undefined
    IN  IF op = "in"
        THEN LET m == MapParse(kind, key, Split(rawValue))
             IN  IF m.threw
                 THEN [acc EXCEPT !.calls = @ \o m.calls, !.threw = TRUE]
                 ELSE [acc EXCEPT !.calls = @ \o m.calls,
                                  !.conditions = Append(@, applyOperator(op, column, ArrV(m.items)))]
        ELSE LET c    == Coerce(kind, rawValue)
                 call == [fn |-> "parse", key |-> key, arg |-> rawValue]
             IN  IF c.threw
                 THEN [acc EXCEPT !.calls = Append(@, call), !.threw = TRUE]
                 ELSE [acc EXCEPT !.calls = Append(@, call),
                                  !.conditions = Append(@, applyOperator(op, column, c.value))]

\* The custom-filter branch of the loop body (lines 102-106).
CustomFilterStep(acc, kind, key, rawValue) ==
    [acc EXCEPT !.calls = Append(@, [fn |-> "custom", key |-> key, arg |-> rawValue]),
                !.conditions = @ \o CustomResult(kind, rawValue)]

FilterStep_OncePerName(cfg, acc, pair) ==
    IF pair.key \in RESERVED_PARAMS THEN acc
    ELSE IF pair.value = <<>> THEN acc
    ELSE IF \E i \in 1..Len(acc.calls) : acc.calls[i].key = pair.key THEN acc
    ELSE IF Truthy(cfg.filters, pair.key)
    THEN ColumnFilterStep(acc, GetProperty(cfg.filters, pair.key), pair.key, pair.value)
    ELSE IF "customFilters" \in DOMAIN cfg /\ Truthy(cfg.customFilters, pair.key)
    THEN CustomFilterStep(acc, GetProperty(cfg.customFilters, pair.key), pair.key, pair.value)
    ELSE acc

FilterStep_CustomFirst(cfg, acc, pair) ==
    IF pair.key \in RESERVED_PARAMS THEN acc
    ELSE IF pair.value = <<>> THEN acc
    ELSE IF "customFilters" \in DOMAIN cfg /\ Truthy(cfg.customFilters, pair.key)
    THEN CustomFilterStep(acc, GetProperty(cfg.customFilters, pair.key), pair.key, pair.value)
    ELSE IF Truthy(cfg.filters, pair.key)
    THEN ColumnFilterStep(acc, GetProperty(cfg.filters, pair.key), pair.key, pair.value)
    ELSE acc

FilterStep_NoReservedCheck(cfg, acc, pair) ==
    IF pair.value = <<>> THEN acc
    ELSE IF Truthy(cfg.filters, pair.key)
    THEN ColumnFilterStep(acc, GetProperty(cfg.filters, pair.key), pair.key, pair.value)
    ELSE IF "customFilters" \in DOMAIN cfg /\ Truthy(cfg.customFilters, pair.key)
    THEN CustomFilterStep(acc, GetProperty(cfg.customFilters, pair.key), pair.key, pair.value)
    ELSE acc

\* One iteration of the loop over params.entries() (lines 80-107).
FilterStep(cfg, acc, pair) ==
    IF pair.key \in RESERVED_PARAMS THEN acc
    ELSE IF pair.value = <<>> THEN acc
    ELSE IF Truthy(cfg.filters, pair.key)
    THEN ColumnFilterStep(acc, GetProperty(cfg.filters, pair.key), pair.key, pair.value)
    ELSE IF "customFilters" \in DOMAIN cfg /\ Truthy(cfg.customFilters, pair.key)
    THEN CustomFilterStep(acc, GetProperty(cfg.customFilters, pair.key), pair.key, pair.value)
    ELSE acc

\* The loop: pairs in their order; an exception leaves the loop.
RECURSIVE FilterLoop(_, _, _)
FilterLoop(cfg, acc, params) ==
    IF params = <<>> \/ acc.threw THEN acc
    ELSE FilterLoop(cfg, FilterStep(cfg, acc, Head(params)), Tail(params))

NoWhere == [present |-> FALSE, args |-> <<>>]

And(conditions) == [present |-> TRUE, args |-> conditions]

CombineWhere_Always(conditions) == And(conditions)

\* const where = conditions.length > 0 ? and(...conditions) : undefined
CombineWhere(conditions) == IF Len(conditions) > 0 THEN And(conditions) ELSE NoWhere

ResolveSortKey(cfg, sortKey) ==
    IF sortKey.present /\ sortKey.value # <<>> /\ HasProperty(cfg.sortable, Str(sortKey.value))
    THEN Str(sortKey.value)
    ELSE cfg.defaultSort.key

ResolveSortDir_IgnoreCase(cfg, sortDir) ==
    IF sortDir.present /\ Str(sortDir.value) \in {"asc", "ASC"} THEN "asc"
    ELSE IF sortDir.present /\ Str(sortDir.value) \in {"desc", "DESC"} THEN "desc"
    ELSE cfg.defaultSort.dir

ResolveSortDir(cfg, sortDir) ==
    IF sortDir.present /\ Str(sortDir.value) \in {"asc", "desc"}
    THEN Str(sortDir.value)
    ELSE cfg.defaultSort.dir

\* config.sortable[resolvedSortKey]!
SortColumn(cfg, key) ==
    IF key \in DOMAIN cfg.sortable THEN cfg.sortable[key]
    ELSE IF key \in ObjectPrototype THEN "Object.prototype." \o key
    ELSE Undefined

OrderBy(dir, column) == [fn |-> IF dir = "asc" THEN "asc" ELSE "desc", column |-> column]

ResolveLimit(cfg, params) ==
    LET defaultLimit == IF "defaultLimit" \in DOMAIN cfg THEN cfg.defaultLimit ELSE DEFAULT_LIMIT
        maxLimit     == IF "maxLimit" \in DOMAIN cfg THEN cfg.maxLimit ELSE MAX_LIMIT
    IN  parseIntClamped(ParamsGet(params, "limit"), 1, Finite(maxLimit), defaultLimit)

ResolveOffset(params) == parseIntClamped(ParamsGet(params, "offset"), 0, Infinity, 0)

\* The whole function: what it returns (where, orderBy, limit, offset), or
\* threw; conditions, calls, sortKey and sortDir are its locals.
\* What parseListQuery returns once its loop has ended (lines 109-139).
Finish(cfg, params, acc) ==
    LET key    == ResolveSortKey(cfg, ParamsGet(params, "sort"))
        dir    == ResolveSortDir(cfg, ParamsGet(params, "order"))
    IN  [threw      |-> acc.threw,
         conditions |-> acc.conditions,
         calls      |-> acc.calls,
         where      |-> CombineWhere(acc.conditions),
         sortKey    |-> key,
         sortDir    |-> dir,
         orderBy    |-> OrderBy(dir, SortColumn(cfg, key)),
         limit      |-> ResolveLimit(cfg, params),
         offset     |-> ResolveOffset(params)]

parseListQuery(in, cfg) ==
    LET params == resolveParams(in)
    IN  Finish(cfg, params, FilterLoop(cfg, EmptyAcc, params))

-----------------------------------------------------------------------------
(* Execution Helper: runListQuery (run-list-query.ts) *)

composeWhere_QueryFirst(baseWhere, queryWhere) ==
    IF queryWhere.present THEN queryWhere ELSE baseWhere

\* and(baseWhere, queryWhere) when both are present, else baseWhere ?? queryWhere
composeWhere(baseWhere, queryWhere) ==
    IF baseWhere.present /\ queryWhere.present
    THEN And(<<baseWhere, queryWhere>>)
    ELSE IF baseWhere.present THEN baseWhere ELSE queryWhere

resolveQuery_InputFirst(o) ==
    IF "input" \in DOMAIN o THEN parseListQuery(o.input, o.config) ELSE o.query

\* "query" in opts ? opts.query : parseListQuery(opts.input, opts.config)
resolveQuery(o) ==
    IF "query" \in DOMAIN o THEN o.query ELSE parseListQuery(o.input, o.config)

\* The row query as built by the select chain.
RowQuery(finalWhere, query) ==
    [kind |-> "rows", where |-> finalWhere, orderBy |-> query.orderBy,
     limit |-> query.limit, offset |-> query.offset]

\* The count query as built by the select chain.
CountQuery(finalWhere) == [kind |-> "count", where |-> finalWhere]

listResponse_Inclusive(data, total, limit, offset) ==
    [data |-> data,
     meta |-> [total |-> total, limit |-> limit, offset |-> offset,
               has_more |-> offset + Len(data) <= total]]

\* listResponse(data, total, limit, offset)
listResponse(data, total, limit, offset) ==
    [data |-> data,
     meta |-> [total |-> total, limit |-> limit, offset |-> offset,
               has_more |-> offset + Len(data) < total]]

-----------------------------------------------------------------------------
(* Inputs *)

Chars(str) ==
    CASE str = ""            -> <<>>
      [] str = "x"           -> <<"x">>
      [] str = "a,b"         -> <<"a", ",", "b">>
      [] str = "5"           -> <<"5">>
      [] str = "1,2"         -> <<"1", ",", "2">>
      [] str = "-1"          -> <<"-", "1">>
      [] str = "0"           -> <<"0">>
      [] str = "2"           -> <<"2">>
      [] str = "at"          -> <<"a", "t">>
      [] str = "zz"          -> <<"z", "z">>
      [] str = "asc"         -> <<"a", "s", "c">>
      [] str = "desc"        -> <<"d", "e", "s", "c">>
      [] str = "ASC"         -> <<"A", "S", "C">>
      [] str = "mine"        -> <<"m", "i", "n", "e">>
      [] str = "title"       -> <<"t", "i", "t", "l", "e">>
      [] str = "constructor" -> <<"c", "o", "n", "s", "t", "r", "u", "c", "t", "o", "r">>

Pair(k, v) == [key |-> k, value |-> v]

PairsOf(k, strs) == {Pair(k, Chars(v)) : v \in strs}

\* The pairs a request of the general specification is made of: the pairs
\* of one pool, in any order and number up to MaxPairs.
FilterPool ==
    PairsOf("status", {"", "x"}) \cup PairsOf("title", {"x"})
    \cup PairsOf("type", {"a,b"}) \cup PairsOf("min", {"5", "x"})
    \cup PairsOf("ids", {"1,2"})
    \cup PairsOf("scope", {"mine", "x"}) \cup PairsOf("unknown", {"x"})
    \cup PairsOf("constructor", {"x"})

PagePool ==
    PairsOf("sort", {"", "at", "title", "zz", "constructor"})
    \cup PairsOf("order", {"asc", "desc", "ASC", "zz"})
    \cup PairsOf("limit", {"0", "x"}) \cup PairsOf("offset", {"-1", "2"})

MixedPool ==
    PairsOf("status", {"x"}) \cup PairsOf("min", {"5"}) \cup PairsOf("scope", {"mine"})
    \cup PairsOf("sort", {"title"}) \cup PairsOf("order", {"asc"}) \cup PairsOf("limit", {"0"})

PairPools == {FilterPool, PagePool, MixedPool}

\* A character of a value as written in a query string.
Encode(c) ==
    CASE c = " " -> <<"+">>
      [] c = "+" -> <<"%", "2", "B">>
      [] c = "," -> <<"%", "2", "C">>
      [] OTHER   -> <<c>>

RECURSIVE EncodeAll(_)
EncodeAll(s) == IF s = <<>> THEN <<>> ELSE Encode(Head(s)) \o EncodeAll(Tail(s))

\* The query string that carries the pairs; a name, an identifier, is
\* written as one element.
RECURSIVE QueryString(_)
QueryString(ps) ==
    IF ps = <<>> THEN <<>>
    ELSE <<Head(ps).key, "=">> \o EncodeAll(Head(ps).value)
             \o (IF Tail(ps) = <<>> THEN <<>> ELSE <<"&">> \o QueryString(Tail(ps)))

Href(ps) ==
    <<"https:", "/", "/", "api", "/", "resources">>
        \o (IF ps = <<>> THEN <<>> ELSE <<"?">> \o QueryString(ps))

\* The request of a shape that carries the pairs: the list itself, the
\* record's properties, or the href of the URL or Request.
MakeInput(shape, ps) ==
    [shape |-> shape, pairs |-> ps,
     href  |-> IF shape \in {"URL", "Request"} THEN Href(ps) ELSE <<>>]

SeqsUpTo(S, n) == UNION {[1..m -> S] : m \in 0..n}

Alphabet == {"0", "1", "5", "-", "+", ".", "a", " "}

\* The values of a limit or offset parameter in the pagination specification.
NumStrings == SeqsUpTo(Alphabet, MaxLen)

Filters(parseKind) ==
    [status |-> [column |-> "status"],
     title  |-> [column |-> "title", op |-> "like"],
     type   |-> [column |-> "type", op |-> "in"],
     min    |-> [column |-> "created", op |-> "gte", parse |-> parseKind],
     ids    |-> [column |-> "id", op |-> "in", parse |-> "bare"],
     sort   |-> [column |-> "reserved"]]

CustomFilters == [scope |-> "mine", limit |-> "any", status |-> "other"]

Sortable == [at |-> "createdAt", title |-> "title"]

BaseConfig(parseKind, defaultSort) ==
    [filters |-> Filters(parseKind), sortable |-> Sortable, defaultSort |-> defaultSort]

WithCustom(cfg) ==
    [k \in DOMAIN cfg \cup {"customFilters"} |->
        IF k = "customFilters" THEN CustomFilters ELSE cfg[k]]

WithLimits(cfg, lims) ==
    [k \in DOMAIN cfg \cup DOMAIN lims |-> IF k \in DOMAIN lims THEN lims[k] ELSE cfg[k]]

DefaultSorts == {[key |-> k, dir |-> d] : k \in {"at", "gone"}, d \in {"asc", "desc"}}

Configs ==
    LET base == {BaseConfig(p, ds) : p \in {"parseInt", "strict"}, ds \in DefaultSorts}
    IN  base \cup {WithCustom(c) : c \in base}

LimitSettings ==
    {[x \in {} |-> 0]}
    \cup {[defaultLimit |-> d] : d \in {1, 3, 200}}
    \cup {[maxLimit |-> m] : m \in {2, 5}}
    \cup {[defaultLimit |-> d, maxLimit |-> m] : d \in {1, 3}, m \in {2, 5}}

PageConfigs ==
    {WithLimits(BaseConfig("parseInt", [key |-> "at", dir |-> "desc"]), l) : l \in LimitSettings}

NoCall == [none |-> TRUE]

DistinctKeys(ps) == \A i, j \in 1..Len(ps) : ps[i].key = ps[j].key => i = j

NoOpts == [none |-> TRUE]

NoResult == [none |-> TRUE]

IdleRun ==
    /\ opts = NoOpts
    /\ table = 0
    /\ writes = 0
    /\ issued = <<>>
    /\ pending = {}
    /\ rows = <<>>
    /\ countRes = <<>>
    /\ result = NoResult
    /\ answered = <<>>

\* A request of any shape, made of at most MaxPairs pairs, under any
\* configuration.
Init ==
    /\ \E shape \in Shapes, ps \in UNION {SeqsUpTo(pool, MaxPairs) : pool \in PairPools} :
          /\ shape = "Record" => DistinctKeys(ps)
          /\ input = MakeInput(shape, ps)
    /\ config \in Configs
    /\ pc = "start"
    /\ parsed = NoResult
    /\ IdleRun
    /\ direct = NoCall
    /\ inv = <<>>

\* A request with at most one pagination parameter, of any value.
InitPage ==
    /\ \E shape \in Shapes :
          input \in {MakeInput(shape, <<>>)}
                    \cup {MakeInput(shape, <<Pair(k, v)>>) :
                             k \in {"limit", "offset"}, v \in NumStrings}
    /\ config \in PageConfigs
    /\ pc = "start"
    /\ parsed = NoResult
    /\ IdleRun
    /\ direct = NoCall
    /\ inv = <<>>

\* A call of parseListQuery: it returns, or an exception leaves it.
ParseListQuery ==
    /\ pc = "start"
    /\ opts = NoOpts
    /\ LET r == parseListQuery(input, config)
       IN  /\ parsed' = r
           /\ pc' = IF r.threw THEN "threw" ELSE "done"
    /\ UNCHANGED <<direct, inv, input, config, runVars>>

-----------------------------------------------------------------------------
(* runListQuery as a process: it issues its queries, the data store      *)
(* completes them in any order, other clients write to the table.        *)

AuthWhere == And(<<[fn |-> "eq", column |-> "tenant", value |-> StrV(<<"t">>)]>>)

QueryWhere == And(<<[fn |-> "eq", column |-> "status", value |-> StrV(<<"x">>)]>>)

\* A ParsedListQuery written by hand, its limit below what parseListQuery
\* would return.
UnclampedQuery ==
    [threw |-> FALSE, where |-> NoWhere, orderBy |-> OrderBy("asc", "title"),
     limit |-> 0, offset |-> 0]

\* Pre-parsed queries handed to runListQuery: small pages, and the third
\* page of a listing that asks for 20 rows from row 10 on.
ParsedQueries ==
    {[threw |-> FALSE, where |-> w, orderBy |-> OrderBy("desc", "createdAt"),
      limit |-> l, offset |-> o] : w \in {NoWhere, QueryWhere}, l \in {1, 2}, o \in {0, 1}}
    \cup {[threw |-> FALSE, where |-> NoWhere, orderBy |-> OrderBy("desc", "createdAt"),
            limit |-> 20, offset |-> 10]}
    \cup {UnclampedQuery}

\* The numbers of matching rows a table starts with: few, or a dozen.
TableSizes == 0..MaxRows \cup {11, 12, 13}

RunInputs ==
    {MakeInput("URLSearchParams", ps) :
        ps \in {<<>>, <<Pair("status", <<"x">>)>>, <<Pair("limit", <<"2">>), Pair("offset", <<"1">>)>>,
                <<Pair("min", <<"x">>)>>}}

RunConfig == WithCustom(BaseConfig("strict", [key |-> "at", dir |-> "desc"]))

\* The options that say which query to run: { query } or { input, config },
\* or both at once.
QueryOpts ==
    {[query |-> q] : q \in ParsedQueries}
    \cup {[input |-> i, config |-> RunConfig] : i \in RunInputs}
    \cup {[query |-> UnclampedQuery, input |-> i, config |-> RunConfig] : i \in RunInputs}

\* The optional options: baseWhere, count, mode.
ExtraOpts ==
    {[baseWhere |-> b, count |-> c, mode |-> m] :
        b \in {NoWhere, AuthWhere}, c \in BOOLEAN, m \in {"rows", "envelope"}}
    \cup {[baseWhere |-> b] : b \in {NoWhere, AuthWhere}}

Merge(a, b) == [k \in DOMAIN a \cup DOMAIN b |-> IF k \in DOMAIN a THEN a[k] ELSE b[k]]

InitRun ==
    /\ opts \in {Merge(q, e) : q \in QueryOpts, e \in ExtraOpts}
    /\ input = (IF "input" \in DOMAIN opts THEN opts.input
                ELSE MakeInput("URLSearchParams", <<>>))
    /\ config = RunConfig
    /\ pc = "start"
    /\ parsed = NoResult
    /\ table \in TableSizes
    /\ writes = 0
    /\ issued = <<>>
    /\ pending = {}
    /\ rows = <<>>
    /\ countRes = <<>>
    /\ result = NoResult
    /\ answered = <<>>
    /\ direct = NoCall
    /\ inv = <<>>

ShouldCount(o) == IF "count" \in DOMAIN o THEN o.count ELSE TRUE

Mode(o) == IF "mode" \in DOMAIN o /\ o.mode = "envelope" THEN "envelope" ELSE "rows"

BaseWhere(o) == IF "baseWhere" \in DOMAIN o THEN o.baseWhere ELSE NoWhere

IssuedQueries_AlwaysCount(o, query) ==
    LET finalWhere == composeWhere(BaseWhere(o), query.where)
    IN  <<RowQuery(finalWhere, query), CountQuery(finalWhere)>>

\* The queries runListQuery builds and starts before its await.
IssuedQueries(o, query) ==
    LET finalWhere == composeWhere(BaseWhere(o), query.where)
    IN  IF ShouldCount(o)
        THEN <<RowQuery(finalWhere, query), CountQuery(finalWhere)>>
        ELSE <<RowQuery(finalWhere, query)>>

\* runListQuery up to its await: resolveQuery, composeWhere, the queries.
\* An exception of parseListQuery rejects the returned promise.
RunStart ==
    /\ pc = "start"
    /\ opts # NoOpts
    /\ LET query == resolveQuery(opts)
       IN  IF query.threw
           THEN /\ pc' = "rejected"
                /\ UNCHANGED <<parsed, issued, pending>>
           ELSE /\ parsed' = query
                /\ issued' = IssuedQueries(opts, query)
                /\ pending' = {issued'[i].kind : i \in 1..Len(issued')}
                /\ pc' = "awaiting"
    /\ UNCHANGED <<direct, inv, answered, input, config, opts, table, writes, rows, countRes, result>>

RowQueryDone_NoOffset ==
    /\ pc = "awaiting"
    /\ "rows" \in pending
    /\ LET n == IF table < parsed.limit THEN table ELSE parsed.limit
       IN  rows' = [i \in 1..n |-> i]
    /\ pending' = pending \ {"rows"}
    /\ answered' = Append(answered, [kind |-> "rows", table |-> table])
    /\ UNCHANGED <<direct, inv, input, config, pc, parsed, opts, table, writes, issued, countRes, result>>

\* The data store answers the row query: the matching rows from offset on,
\* at most limit of them.
RowQueryDone ==
    /\ pc = "awaiting"
    /\ "rows" \in pending
    /\ LET avail == IF table > parsed.offset THEN table - parsed.offset ELSE 0
           n     == IF avail < parsed.limit THEN avail ELSE parsed.limit
       IN  rows' = [i \in 1..n |-> parsed.offset + i]
    /\ pending' = pending \ {"rows"}
    /\ answered' = Append(answered, [kind |-> "rows", table |-> table])
    /\ UNCHANGED <<direct, inv, input, config, pc, parsed, opts, table, writes, issued, countRes, result>>

\* The data store answers the count query: one record, or none.
CountQueryDone ==
    /\ pc = "awaiting"
    /\ "count" \in pending
    /\ countRes' \in {<<[total |-> table]>>, <<>>}
    /\ pending' = pending \ {"count"}
    /\ answered' = Append(answered, [kind |-> "count", table |-> table])
    /\ UNCHANGED <<direct, inv, input, config, pc, parsed, opts, table, writes, issued, rows, result>>

QueryFails_PartialSuccess ==
    /\ pc = "awaiting"
    /\ pending # {}
    /\ result' = [rows |-> rows, total |-> 0, has_more |-> FALSE]
    /\ pc' = "resolved"
    /\ UNCHANGED <<direct, inv, answered, input, config, parsed, opts, table, writes, issued, pending, rows, countRes>>

\* A pending query fails: Promise.all (or the await) rejects with the
\* query's error, which leaves runListQuery as it came.
QueryFails ==
    /\ pc = "awaiting"
    /\ \E q \in pending : result' = [error |-> q]
    /\ pc' = "rejected"
    /\ UNCHANGED <<direct, inv, answered, input, config, parsed, opts, table, writes, issued, pending, rows, countRes>>

\* Another client inserts or deletes a matching row while the call awaits.
Write ==
    /\ pc = "awaiting"
    /\ writes < MaxWrites
    /\ \E t \in {table - 1, table + 1} :
          /\ t \in TableSizes
          /\ table' = t
    /\ writes' = writes + 1
    /\ UNCHANGED <<direct, inv, answered, input, config, pc, parsed, opts, issued, pending, rows, countRes, result>>

ExactResult_NoFallback(o, query, rs, cnt) ==
    LET total    == IF cnt # <<>> THEN cnt[1].total ELSE query.offset + Len(rs)
        has_more == query.offset + Len(rs) < total
    IN  IF Mode(o) = "envelope"
        THEN listResponse(rs, total, query.limit, query.offset)
        ELSE [rows |-> rs, total |-> total, has_more |-> has_more]

\* The result of the exact mode (lines 219-225).
ExactResult(o, query, rs, cnt) ==
    LET total    == IF cnt # <<>> THEN cnt[1].total ELSE 0
        has_more == query.offset + Len(rs) < total
    IN  IF Mode(o) = "envelope"
        THEN listResponse(rs, total, query.limit, query.offset)
        ELSE [rows |-> rs, total |-> total, has_more |-> has_more]

HeuristicResult_ViaListResponse(o, query, rs) ==
    LET total    == query.offset + Len(rs)
        has_more == Len(rs) = query.limit
    IN  IF Mode(o) = "envelope"
        THEN listResponse(rs, total, query.limit, query.offset)
        ELSE [rows |-> rs, total |-> total, has_more |-> has_more]

\* The result of the heuristic mode (lines 236-245).
HeuristicResult(o, query, rs) ==
    LET total    == query.offset + Len(rs)
        has_more == Len(rs) = query.limit
    IN  IF Mode(o) = "envelope"
        THEN [data |-> rs,
              meta |-> [total |-> total, limit |-> query.limit, offset |-> query.offset,
                        has_more |-> has_more]]
        ELSE [rows |-> rs, total |-> total, has_more |-> has_more]

RunFinish_AfterRows ==
    /\ pc = "awaiting"
    /\ "rows" \notin pending
    /\ result' = IF ShouldCount(opts) THEN ExactResult(opts, parsed, rows, countRes)
                 ELSE HeuristicResult(opts, parsed, rows)
    /\ pc' = "resolved"
    /\ UNCHANGED <<direct, inv, answered, input, config, parsed, opts, table, writes, issued, pending, rows, countRes>>

\* runListQuery after its await: every issued query has completed.
RunFinish ==
    /\ pc = "awaiting"
    /\ pending = {}
    /\ result' = IF ShouldCount(opts) THEN ExactResult(opts, parsed, rows, countRes)
                 ELSE HeuristicResult(opts, parsed, rows)
    /\ pc' = "resolved"
    /\ UNCHANGED <<direct, inv, answered, input, config, parsed, opts, table, writes, issued, pending, rows, countRes>>

\* The rows handed to listResponse, and its numbers.
RowValues == {"r1", "r2"}

InitEnvelope ==
    /\ direct \in {[data |-> d, total |-> t, limit |-> l, offset |-> o] :
                    d \in SeqsUpTo(RowValues, MaxRows), t \in 0..(2 * MaxRows),
                    l \in 0..MaxRows, o \in 0..MaxRows}
    /\ input = MakeInput("URLSearchParams", <<>>)
    /\ config = RunConfig
    /\ pc = "start"
    /\ parsed = NoResult
    /\ IdleRun
    /\ inv = <<>>

\* A direct call of listResponse.
ListResponse ==
    /\ pc = "start"
    /\ direct # NoCall
    /\ result' = listResponse(direct.data, direct.total, direct.limit, direct.offset)
    /\ pc' = "returned"
    /\ UNCHANGED <<direct, inv, answered, input, config, parsed, opts, table, writes, issued, pending, rows, countRes>>

\* Calls of parseListQuery that share one config, each with locals of its
\* own, taken a step at a time.
Callers == {1, 2}

CallPool ==
    {Pair("status", <<"x">>), Pair("min", <<"x">>), Pair("min", <<"5">>),
     Pair("sort", Chars("title")), Pair("limit", <<"2">>)}

CallConfigs ==
    {WithCustom(BaseConfig(p, [key |-> "at", dir |-> "desc"])) : p \in {"parseInt", "strict"}}

InitCalls ==
    /\ config \in CallConfigs
    /\ inv \in [Callers -> {[input |-> MakeInput(shape, ps), given |-> MakeInput(shape, ps),
                              under |-> cfg, pc |-> "start", params |-> <<>>, i |-> 0,
                              acc |-> EmptyAcc, result |-> NoResult] :
                                 shape \in {"URLSearchParams", "Request"},
                                 ps \in SeqsUpTo(CallPool, MaxPairs - 1),
                                 cfg \in CallConfigs}]
    /\ \A c \in Callers : inv[c].under = config
    /\ input = MakeInput("URLSearchParams", <<>>)
    /\ pc = "start"
    /\ parsed = NoResult
    /\ IdleRun
    /\ direct = NoCall

Iterate_SharedConditions(invs, c) ==
    LET acc == FilterStep(config, invs[1].acc, invs[c].params[invs[c].i])
    IN  [invs EXCEPT ![1].acc = acc,
                     ![c].i = IF acc.threw THEN @ ELSE @ + 1,
                     ![c].pc = IF acc.threw THEN "threw" ELSE @]

\* One iteration of a call's loop, on the call's own conditions (line 76).
Iterate(invs, c) ==
    LET acc == FilterStep(config, invs[c].acc, invs[c].params[invs[c].i])
    IN  [invs EXCEPT ![c].acc = acc,
                     ![c].i = IF acc.threw THEN @ ELSE @ + 1,
                     ![c].pc = IF acc.threw THEN "threw" ELSE @]

\* A call starts: resolveParams, an empty list of conditions.
CallBegin(c) ==
    /\ inv # <<>>
    /\ inv[c].pc = "start"
    /\ inv' = [inv EXCEPT ![c].pc = "loop", ![c].params = resolveParams(inv[c].input),
                          ![c].i = 1, ![c].acc = EmptyAcc]
    /\ UNCHANGED <<direct, input, config, pc, parsed, runVars>>

\* A call handles its next pair.
CallIterate(c) ==
    /\ inv # <<>>
    /\ inv[c].pc = "loop"
    /\ inv[c].i <= Len(inv[c].params)
    /\ inv' = Iterate(inv, c)
    /\ UNCHANGED <<direct, input, config, pc, parsed, runVars>>

\* A call has handled its pairs: where, sort and page, and it returns.
CallReturn(c) ==
    /\ inv # <<>>
    /\ inv[c].pc = "loop"
    /\ inv[c].i > Len(inv[c].params)
    /\ inv' = [inv EXCEPT ![c].pc = "done",
                          ![c].result = Finish(config, inv[c].params, inv[c].acc)]
    /\ UNCHANGED <<direct, input, config, pc, parsed, runVars>>

Next == ParseListQuery

NextRun == RunStart \/ RowQueryDone \/ CountQueryDone \/ QueryFails \/ Write \/ RunFinish

NextEnvelope == ListResponse

NextCalls == \E c \in Callers : CallBegin(c) \/ CallIterate(c) \/ CallReturn(c)

\* parseListQuery on requests built from the pool of pairs
Spec == Init /\ [][Next]_vars

\* parseListQuery on requests with one pagination parameter
SpecPage == InitPage /\ [][Next]_vars

\* runListQuery against a table other clients write to
SpecRun == InitRun /\ [][NextRun]_vars

\* listResponse on any rows and numbers
SpecEnvelope == InitEnvelope /\ [][NextEnvelope]_vars

\* calls of parseListQuery under one config, interleaved
SpecCalls == InitCalls /\ [][NextCalls]_vars

-----------------------------------------------------------------------------
(* Vocabulary of the properties, stated without the translator's own      *)
(* operators                                                              *)

Occurrences(name) == {i \in 1..Len(input.pairs) : input.pairs[i].key = name}

AtMostOnce(name) == Cardinality(Occurrences(name)) <= 1

\* The value requested under a name that occurs at most once.
Requested(name) ==
    IF Occurrences(name) = {} THEN Null
    ELSE Some(input.pairs[CHOOSE i \in Occurrences(name) : TRUE].value)

\* s without its leading white space
Trimmed(s) ==
    LET first == {i \in 1..Len(s) : s[i] # " "}
    IN  IF first = {} THEN <<>>
        ELSE SubSeq(s, CHOOSE i \in first : \A j \in first : i <= j, Len(s))

\* t is an optional sign followed by one or more decimal digits
IsSignedInteger(t) ==
    /\ t # <<>>
    /\ LET b == IF t[1] \in {"+", "-"} THEN Tail(t) ELSE t
       IN  b # <<>> /\ \A i \in 1..Len(b) : IsDigit(b[i])

RECURSIVE Pow10(_)
Pow10(k) == IF k = 0 THEN 1 ELSE 10 * Pow10(k - 1)

RECURSIVE PlaceValueSum(_, _)
PlaceValueSum(b, i) ==
    IF i > Len(b) THEN 0
    ELSE DigitVal(b[i]) * Pow10(Len(b) - i) + PlaceValueSum(b, i + 1)

SignedIntegerValue(t) ==
    IF t[1] = "-" THEN -PlaceValueSum(Tail(t), 1)
    ELSE IF t[1] = "+" THEN PlaceValueSum(Tail(t), 1)
    ELSE PlaceValueSum(t, 1)

\* The leading integer of a value: its longest prefix, after leading white
\* space, that is a signed integer; none when no prefix is one.
LeadingInteger(s) ==
    LET t    == Trimmed(s)
        lens == {n \in 1..Len(t) : IsSignedInteger(SubSeq(t, 1, n))}
    IN  IF lens = {} THEN [ok |-> FALSE, n |-> 0]
        ELSE [ok |-> TRUE,
              n  |-> SignedIntegerValue(SubSeq(t, 1, CHOOSE n \in lens : \A m \in lens : m <= n))]

DefaultLimitOf(cfg) == IF "defaultLimit" \in DOMAIN cfg THEN cfg.defaultLimit ELSE 20

MaxLimitOf(cfg) == IF "maxLimit" \in DOMAIN cfg THEN cfg.maxLimit ELSE 100

Declared(cfg, name) ==
    \/ name \in DOMAIN cfg.filters
    \/ "customFilters" \in DOMAIN cfg /\ name \in DOMAIN cfg.customFilters

WithoutPair(in, i) ==
    MakeInput(in.shape, SubSeq(in.pairs, 1, i - 1) \o SubSeq(in.pairs, i + 1, Len(in.pairs)))

-----------------------------------------------------------------------------
(* C1: parseListQuery never raises an exception, whatever the input and   *)
(* the configuration (coercion functions and custom filters included).    *)
(* The code calls the configured coercion function unguarded, so a        *)
(* validating one that throws on a bad value makes the call throw.        *)
C1_NeverRaises == pc # "threw"

(* C2: for every input and every configuration with positive defaultLimit *)
(* and maxLimit (or the defaults 20 and 100), the returned limit is in    *)
(* [1, maxLimit], also when the default limit is used.                    *)
C2_LimitWithinBounds ==
    pc = "done" => 1 <= parsed.limit /\ parsed.limit <= MaxLimitOf(config)

(* C3: the returned offset is 0 when the offset parameter is absent,      *)
(* empty or unparseable, and otherwise its leading integer raised to a    *)
(* minimum of 0, with no upper bound; so offset >= 0.                     *)
C3_OffsetResolved ==
    pc = "done" =>
        LET r  == Requested("offset")
            li == LeadingInteger(r.value)
        IN  /\ parsed.offset >= 0
            /\ parsed.offset = IF ~r.present \/ r.value = <<>> \/ ~li.ok THEN 0
                               ELSE IF li.n < 0 THEN 0 ELSE li.n

C3_NegativeOffsetRaised ==
    /\ pc = "done"
    /\ Requested("offset").present
    /\ LeadingInteger(Requested("offset").value).ok
    /\ LeadingInteger(Requested("offset").value).n < 0
    /\ parsed.offset = 0

(* C4: a pair whose name is neither declared in config.filters or         *)
(* config.customFilters nor reserved leaves the where condition as it is  *)
(* without that pair, whatever the name is.                               *)
C4_UndeclaredNameInert ==
    pc = "done" =>
        \A i \in 1..Len(input.pairs) :
            LET k == input.pairs[i].key
            IN  (~Declared(config, k) /\ k \notin {"sort", "order", "limit", "offset"})
                    => parseListQuery(WithoutPair(input, i), config).where = parsed.where

(* C5: every query runListQuery issues carries AND(baseWhere, query.where)*)
(* when both are present, the present one when one is, no condition when  *)
(* neither is; a present baseWhere is part of every issued condition.     *)
C5_EffectiveCondition ==
    pc \in {"awaiting", "resolved"} =>
        LET b == IF "baseWhere" \in DOMAIN opts THEN opts.baseWhere ELSE NoWhere
            q == IF "query" \in DOMAIN opts THEN opts.query.where ELSE parsed.where
        IN  /\ Len(issued) >= 1
            /\ \A i \in 1..Len(issued) :
                  LET w == issued[i].where
                  IN  /\ (b.present /\ q.present) => w = And(<<b, q>>)
                      /\ (b.present /\ ~q.present) => w = b
                      /\ (~b.present /\ q.present) => w = q
                      /\ (~b.present /\ ~q.present) => ~w.present
                      /\ b.present => (w = b \/ \E k \in 1..Len(w.args) : w.args[k] = b)

C5_BothQueriesScoped ==
    /\ pc = "resolved"
    /\ Len(issued) = 2
    /\ "baseWhere" \in DOMAIN opts /\ opts.baseWhere.present
    /\ "input" \in DOMAIN opts /\ parsed.where.present
    /\ \A i \in 1..2 : issued[i].where = And(<<opts.baseWhere, parsed.where>>)

(* C6: where is absent exactly when no condition was appended during      *)
(* filter resolution, and is the AND of all appended conditions otherwise.*)
C6_WhereAbsentIffNoCondition ==
    pc = "done" =>
        /\ parsed.where.present <=> Len(parsed.conditions) > 0
        /\ parsed.where.present => parsed.where = And(parsed.conditions)
        /\ ~parsed.where.present => parsed.where = NoWhere

C6_NothingMatchedNoWhere ==
    /\ pc = "done"
    /\ Len(input.pairs) = MaxPairs
    /\ parsed.conditions = <<>>
    /\ ~parsed.where.present

(* C7: pairs named sort, order, limit or offset produce no condition and  *)
(* invoke no coercion function and no custom filter, even when the        *)
(* configuration declares a filter or custom filter under such a name.    *)
C7_ReservedNeverFilter ==
    pc \in {"done", "threw"} =>
        LET rest == SelectSeq(input.pairs, LAMBDA p : p.key \notin {"sort", "order", "limit", "offset"})
            alone == FilterLoop(config, EmptyAcc, rest)
        IN  /\ \A i \in 1..Len(parsed.calls) :
                  parsed.calls[i].key \notin {"sort", "order", "limit", "offset"}
            /\ \A i \in 1..Len(parsed.conditions) :
                  parsed.conditions[i].column \notin {"reserved", "custom"}
            /\ parsed.conditions = alone.conditions
            /\ parsed.calls = alone.calls

C7_DeclaredReservedSkipped ==
    /\ pc = "done"
    /\ "sort" \in DOMAIN config.filters
    /\ "customFilters" \in DOMAIN config /\ "limit" \in DOMAIN config.customFilters
    /\ \E i, j \in 1..Len(input.pairs) :
          /\ input.pairs[i].key = "sort" /\ input.pairs[i].value # <<>>
          /\ input.pairs[j].key = "limit" /\ input.pairs[j].value # <<>>
    /\ parsed.conditions = <<>>
    /\ parsed.calls = <<>>

(* C8: the effective sort key is the requested sort value if and only if  *)
(* that value is non-empty and a key declared in config.sortable; in      *)
(* every other case it is config.defaultSort.key.                         *)
C8_SortKeyAllowlisted ==
    (pc = "done" /\ AtMostOnce("sort")) =>
        LET r == Requested("sort")
        IN  parsed.sortKey =
                IF r.present /\ r.value # <<>> /\ Str(r.value) \in DOMAIN config.sortable
                THEN Str(r.value)
                ELSE config.defaultSort.key

(* C9: the effective sort direction is the requested order value if and   *)
(* only if it is exactly "asc" or "desc"; otherwise it is                 *)
(* config.defaultSort.dir, whatever the requested sort key is.            *)
C9_SortDirResolved ==
    (pc = "done" /\ AtMostOnce("order")) =>
        LET r == Requested("order")
        IN  /\ parsed.sortDir =
                  IF r.present /\ r.value = <<"a", "s", "c">> THEN "asc"
                  ELSE IF r.present /\ r.value = <<"d", "e", "s", "c">> THEN "desc"
                  ELSE config.defaultSort.dir
            /\ parsed.orderBy.fn = parsed.sortDir

C9_ValidOrderKeptWithBadKey ==
    /\ pc = "done"
    /\ AtMostOnce("order") /\ AtMostOnce("sort")
    /\ Requested("sort") = Some(<<"z", "z">>)
    /\ Requested("order") = Some(<<"a", "s", "c">>)
    /\ config.defaultSort.dir = "desc"
    /\ parsed.sortDir = "asc"
    /\ parsed.sortKey = config.defaultSort.key

(* C10: the returned limit is the configured default limit (20 when not   *)
(* configured) when the limit parameter is absent, empty or has no        *)
(* parseable leading integer; otherwise its leading integer (a fractional *)
(* suffix is dropped, not rounded) clamped into [1, maxLimit].            *)
C10_LimitResolved ==
    pc = "done" =>
        LET r  == Requested("limit")
            li == LeadingInteger(r.value)
        IN  parsed.limit =
                IF ~r.present \/ r.value = <<>> \/ ~li.ok THEN DefaultLimitOf(config)
                ELSE IF li.n < 1 THEN 1
                ELSE IF li.n > MaxLimitOf(config) THEN MaxLimitOf(config)
                ELSE li.n

C10_FractionTruncated ==
    /\ pc = "done"
    /\ Requested("limit") = Some(<<"1", ".", "5">>)
    /\ MaxLimitOf(config) >= 2
    /\ parsed.limit = 1

-----------------------------------------------------------------------------
(* Vocabulary of the filter properties *)

IsReserved(name) == name \in {"sort", "order", "limit", "offset"}

\* The pairs that name a declared column filter and carry a value.
MatchingPairs ==
    SelectSeq(input.pairs,
              LAMBDA p : ~IsReserved(p.key) /\ p.value # <<>> /\ p.key \in DOMAIN config.filters)

DeclaredColumns == {config.filters[k].column : k \in DOMAIN config.filters}

\* The conditions over a declared column, in the order of the result.
ColumnConditions == SelectSeq(parsed.conditions, LAMBDA c : c.column \in DeclaredColumns)

OpOf(cf) == IF "op" \in DOMAIN cf THEN cf.op ELSE "eq"

ParseOf(cf) == IF "parse" \in DOMAIN cf THEN cf.parse ELSE "identity"

\* The k-th smallest element of a set of numbers.
Kth(S, k) == CHOOSE p \in S : Cardinality({q \in S : q < p}) = k - 1

\* The segments of a value between its commas: one more than its commas.
Segments(v) ==
    LET commas == {i \in 1..Len(v) : v[i] = ","}
        n      == Cardinality(commas)
        from(k) == IF k = 1 THEN 1 ELSE Kth(commas, k - 1) + 1
        to(k)   == IF k = n + 1 THEN Len(v) ELSE Kth(commas, k) - 1
    IN  [k \in 1..(n + 1) |-> SubSeq(v, from(k), to(k))]

\* The value a column filter's predicate is to target for a raw value:
\* the configured coercion of every segment for the membership operator,
\* of the whole value otherwise.
TargetOf(cf, v) ==
    IF OpOf(cf) = "in"
    THEN ArrV([k \in 1..Len(Segments(v)) |-> Coerce(ParseOf(cf), Segments(v)[k]).value])
    ELSE IF OpOf(cf) = "like"
    THEN StrV(<<"%">> \o String(Coerce(ParseOf(cf), v).value) \o <<"%">>)
    ELSE Coerce(ParseOf(cf), v).value

CustomPairs ==
    SelectSeq(input.pairs,
              LAMBDA p : /\ ~IsReserved(p.key)
                         /\ p.value # <<>>
                         /\ p.key \notin DOMAIN config.filters
                         /\ "customFilters" \in DOMAIN config
                         /\ p.key \in DOMAIN config.customFilters)

CustomCalls == SelectSeq(parsed.calls, LAMBDA c : c.fn = "custom")

CustomConditions == SelectSeq(parsed.conditions, LAMBDA c : c.fn = "sql")

\* What the declared custom filters return for a sequence of pairs: the
\* predicates, with nothing for a pair whose filter returns no predicate.
RECURSIVE CustomPredicates(_)
CustomPredicates(ps) ==
    IF ps = <<>> THEN <<>>
    ELSE CustomResult(config.customFilters[Head(ps).key], Head(ps).value)
             \o CustomPredicates(Tail(ps))

(* C12: a custom filter is invoked, with the raw value, only for a        *)
(* non-reserved, non-empty pair whose name is not a declared column       *)
(* filter (a name declared in both gets the column filter only); what it  *)
(* returns is appended when it is a predicate and adds nothing otherwise. *)
C12_CustomFilterAfterColumnFilter ==
    /\ pc \in {"done", "threw"} =>
          \A i \in 1..Len(CustomCalls) :
              \E j \in 1..Len(CustomPairs) :
                  /\ CustomPairs[j].key = CustomCalls[i].key
                  /\ CustomPairs[j].value = CustomCalls[i].arg
    /\ pc = "done" =>
          /\ Len(CustomCalls) = Len(CustomPairs)
          /\ \A i \in 1..Len(CustomPairs) :
                /\ i <= Len(CustomCalls)
                /\ CustomCalls[i].key = CustomPairs[i].key
                /\ CustomCalls[i].arg = CustomPairs[i].value
          /\ CustomConditions = CustomPredicates(CustomPairs)

\* A name declared in both maps got its column filter only, next to a
\* custom filter that returned a predicate.
C12_ColumnFilterShadowsCustom ==
    /\ pc = "done"
    /\ "customFilters" \in DOMAIN config
    /\ \E i \in 1..Len(input.pairs) :
          /\ input.pairs[i].key \in DOMAIN config.filters \cap DOMAIN config.customFilters
          /\ ~IsReserved(input.pairs[i].key)
          /\ input.pairs[i].value # <<>>
    /\ \E c \in 1..Len(parsed.conditions) : parsed.conditions[c].column = "status"
    /\ Len(CustomCalls) = 1
    /\ Len(CustomConditions) = 1

-----------------------------------------------------------------------------
(* Vocabulary of the result properties *)

IsEnvelope(r) == "meta" \in DOMAIN r

\* What a result of runListQuery reports, in either mode of presentation.
ReportedTotal == IF IsEnvelope(result) THEN result.meta.total ELSE result.total

ReportedHasMore == IF IsEnvelope(result) THEN result.meta.has_more ELSE result.has_more

ReportedRows == IF IsEnvelope(result) THEN result.data ELSE result.rows

CountMode == IF "count" \in DOMAIN opts THEN opts.count ELSE TRUE

(* C13: in exact mode (count true, the default) total is the count value  *)
(* of the first record of the count query's result, or 0 when that result *)
(* is empty, and has_more is offset + returned rows < total.              *)
C13_ExactTotalAndHasMore ==
    (pc = "resolved" /\ CountMode) =>
        /\ ReportedRows = rows
        /\ ReportedTotal = (IF Len(countRes) = 0 THEN 0 ELSE countRes[1].total)
        /\ ReportedHasMore = (parsed.offset + Len(rows) < ReportedTotal)

\* An empty count result next to returned rows: total 0, nothing more.
C13_EmptyCountResultGivesZero ==
    /\ pc = "resolved"
    /\ CountMode
    /\ countRes = <<>>
    /\ Len(rows) > 0
    /\ ReportedTotal = 0
    /\ ReportedHasMore = FALSE

(* C14: in heuristic mode (count false) exactly one query is issued, the  *)
(* row query and never a count query; total is offset + returned rows and *)
(* has_more is (returned rows = limit).                                   *)
C14_HeuristicOneQuery ==
    /\ (pc \in {"awaiting", "resolved"} /\ ~CountMode) =>
          /\ Len(issued) = 1
          /\ issued[1].kind = "rows"
          /\ countRes = <<>>
    /\ (pc = "resolved" /\ ~CountMode) =>
          /\ ReportedRows = rows
          /\ ReportedTotal = parsed.offset + Len(rows)
          /\ ReportedHasMore = (Len(rows) = parsed.limit)

\* limit 20, offset 10 and 2 returned rows: total 12, nothing more.
C14_ShortPageOfTwenty ==
    /\ pc = "resolved"
    /\ ~CountMode
    /\ parsed.limit = 20
    /\ parsed.offset = 10
    /\ Len(rows) = 2
    /\ ReportedTotal = 12
    /\ ReportedHasMore = FALSE

(* C15 as stated: every envelope of runListQuery, in exact and in         *)
(* heuristic mode alike, has meta.has_more true iff                       *)
(* meta.offset + length(data) < meta.total.                               *)
C15_HasMoreIffBelowTotal ==
    (pc = "resolved" /\ IsEnvelope(result)) =>
        (result.meta.has_more <=> result.meta.offset + Len(result.data) < result.meta.total)

(* C15 amended: an envelope of exact mode (and so of listResponse) has    *)
(* meta.has_more true iff meta.offset + length(data) < meta.total; an     *)
(* envelope of heuristic mode has meta.total = meta.offset + length(data) *)
(* and meta.has_more true iff length(data) = meta.limit.                  *)
C15_HasMorePerMode ==
    (pc = "resolved" /\ IsEnvelope(result)) =>
        IF CountMode
        THEN result.meta.has_more <=> result.meta.offset + Len(result.data) < result.meta.total
        ELSE /\ result.meta.total = result.meta.offset + Len(result.data)
             /\ result.meta.has_more <=> Len(result.data) = result.meta.limit

\* A full page in heuristic mode: more is announced at the total itself.
C15_FullHeuristicPage ==
    /\ pc = "resolved"
    /\ IsEnvelope(result)
    /\ ~CountMode
    /\ Len(result.data) = result.meta.limit
    /\ result.meta.has_more
    /\ result.meta.offset + Len(result.data) = result.meta.total

(* C16: for every data sequence and all non-negative total, limit and     *)
(* offset, listResponse returns data, total, limit and offset unchanged   *)
(* and meta.has_more equal to (offset + length(data) < total).            *)
C16_ListResponseRoundTrip ==
    (pc = "returned" /\ direct # NoCall) =>
        /\ result.data = direct.data
        /\ result.meta.total = direct.total
        /\ result.meta.limit = direct.limit
        /\ result.meta.offset = direct.offset
        /\ result.meta.has_more = (direct.offset + Len(direct.data) < direct.total)

\* The last page exactly: offset + length(data) is the total, nothing more.
C16_LastPageHasNoMore ==
    /\ pc = "returned"
    /\ direct # NoCall
    /\ Len(direct.data) > 0
    /\ direct.offset > 0
    /\ direct.offset + Len(direct.data) = direct.total
    /\ result.meta.has_more = FALSE
    /\ result.data = direct.data

-----------------------------------------------------------------------------
(* C17: a URLSearchParams, a URL, a Request and (without repeated keys) a *)
(* plain record that carry the same ordered pairs yield the same result   *)
(* under the same config; repeated keys of the first three shapes are all *)
(* retained and iterated in their original order.                         *)
C17_ShapesEquivalent ==
    pc \in {"done", "threw"} =>
        /\ parsed = parseListQuery(MakeInput("URLSearchParams", input.pairs), config)
        /\ input.shape # "Record" => resolveParams(input) = input.pairs

\* A Request whose query string repeats a name: both pairs gave a condition.
C17_RequestKeepsRepeatedKey ==
    /\ pc = "done"
    /\ input.shape = "Request"
    /\ Len(input.pairs) = 2
    /\ input.pairs[1].key = input.pairs[2].key
    /\ input.pairs[1].value # input.pairs[2].value
    /\ Len(parsed.conditions) = 2

-----------------------------------------------------------------------------
\* What two results are compared on.
Structure(r) ==
    [conditions |-> r.conditions, sortKey |-> r.sortKey, sortDir |-> r.sortDir,
     limit |-> r.limit, offset |-> r.offset]

(* C18: parseListQuery is stateless and deterministic: a call leaves its  *)
(* input and the config as they were, and calls with the same pairs under *)
(* the same config, one after the other or interleaved, return            *)
(* structurally equal results, those of the call run alone.               *)
C18_CallsIndependent ==
    inv # <<>> =>
        /\ \A c \in Callers :
              /\ inv[c].input = inv[c].given
              /\ inv[c].under = config
              /\ inv[c].pc = "done" =>
                    /\ ~parseListQuery(inv[c].given, inv[c].under).threw
                    /\ Structure(inv[c].result)
                           = Structure(parseListQuery(inv[c].given, inv[c].under))
              /\ inv[c].pc = "threw" => parseListQuery(inv[c].given, inv[c].under).threw
        /\ \A c, d \in Callers :
              (/\ inv[c].pc = "done" /\ inv[d].pc = "done"
               /\ inv[c].given.pairs = inv[d].given.pairs)
                  => Structure(inv[c].result) = Structure(inv[d].result)

\* Two calls with the same pairs, the second begun and ended while the
\* first was in its loop, both with a condition.
C18_InterleavedCallsAgree ==
    /\ inv # <<>>
    /\ inv[1].pc = "loop"
    /\ inv[1].i = 2
    /\ inv[2].pc = "done"
    /\ inv[1].given.pairs = inv[2].given.pairs
    /\ Len(inv[1].given.pairs) = 1
    /\ Len(inv[2].result.conditions) = 1
    /\ Len(inv[1].acc.conditions) = 1

-----------------------------------------------------------------------------
PageNames == {"sort", "order", "limit", "offset"}

\* The pairs from the j-th on, without the occurrences of a name other than
\* the one at position keep.
RECURSIVE KeepOccurrence(_, _, _, _)
KeepOccurrence(ps, name, keep, j) ==
    IF j > Len(ps) THEN <<>>
    ELSE (IF ps[j].key = name /\ j # keep THEN <<>> ELSE <<ps[j]>>)
             \o KeepOccurrence(ps, name, keep, j + 1)

\* Sort and page of a result.
SortAndPage(r) ==
    [sortKey |-> r.sortKey, sortDir |-> r.sortDir, orderBy |-> r.orderBy,
     limit |-> r.limit, offset |-> r.offset]

FirstOf(S) == CHOOSE i \in S : \A j \in S : i <= j

LastOf(S) == CHOOSE i \in S : \A j \in S : j <= i

(* C19 as stated: when sort, order, limit or offset occurs more than once *)
(* the value of the last occurrence is used.                              *)
C19_LastOccurrenceUsed ==
    pc = "done" =>
        \A name \in PageNames :
            Cardinality(Occurrences(name)) > 1 =>
                SortAndPage(parsed) =
                    SortAndPage(parseListQuery(
                        MakeInput(input.shape,
                                  KeepOccurrence(input.pairs, name, LastOf(Occurrences(name)), 1)),
                        config))

(* C19 amended: when sort, order, limit or offset occurs more than once   *)
(* the value of the first occurrence is used, later ones are ignored.     *)
C19_FirstOccurrenceUsed ==
    pc = "done" =>
        \A name \in PageNames :
            Cardinality(Occurrences(name)) > 1 =>
                SortAndPage(parsed) =
                    SortAndPage(parseListQuery(
                        MakeInput(input.shape,
                                  KeepOccurrence(input.pairs, name, FirstOf(Occurrences(name)), 1)),
                        config))

\* offset=2&offset=-1 resolves to 2, where the last occurrence gives 0.
C19_FirstOffsetKept ==
    /\ pc = "done"
    /\ Len(input.pairs) = 2
    /\ input.pairs[1] = [key |-> "offset", value |-> <<"2">>]
    /\ input.pairs[2] = [key |-> "offset", value |-> <<"-", "1">>]
    /\ parsed.offset = 2

-----------------------------------------------------------------------------
\* The comparison a declared operator builds.
ComparisonOf(cf) == IF OpOf(cf) = "in" THEN "inArray" ELSE OpOf(cf)

(* C20: exactly one condition per non-reserved, non-empty pair whose name *)
(* is a declared column filter, in the order of the pairs, built with the *)
(* filter's operator (equals when none is declared) over the filter's     *)
(* column; a name given n times with values gives n conditions, a pair    *)
(* with an empty value none.                                              *)
C20_OneConditionPerMatchingPair ==
    pc = "done" =>
        /\ Len(ColumnConditions) = Len(MatchingPairs)
        /\ \A i \in 1..Len(MatchingPairs) :
              LET cf == config.filters[MatchingPairs[i].key]
              IN  /\ i <= Len(ColumnConditions)
                  /\ ColumnConditions[i].column = cf.column
                  /\ ColumnConditions[i].fn = ComparisonOf(cf)
        /\ parsed.where.present => parsed.where.args = parsed.conditions
        /\ \A k \in DOMAIN config.filters :
              Cardinality({i \in 1..Len(ColumnConditions) :
                              ColumnConditions[i].column = config.filters[k].column})
                  = Cardinality({j \in Occurrences(k) :
                                    ~IsReserved(k) /\ input.pairs[j].value # <<>>})

\* min=5&min=x: two gte conditions over the same column, in that order.
C20_RepeatedNameTwoConditions ==
    /\ pc = "done"
    /\ Len(input.pairs) = 2
    /\ input.pairs[1] = [key |-> "min", value |-> <<"5">>]
    /\ input.pairs[2] = [key |-> "min", value |-> <<"x">>]
    /\ Len(parsed.conditions) = 2
    /\ parsed.conditions[1] = [fn |-> "gte", column |-> "created", value |-> NumV(Num(5))]
    /\ parsed.conditions[2].fn = "gte"
    /\ parsed.conditions[2].column = "created"
    /\ parsed.where.args = parsed.conditions

-----------------------------------------------------------------------------
(* Vocabulary of the data store properties *)

\* The table size the answered query of a kind met.
MetBy(kind) ==
    LET at == {i \in 1..Len(answered) : answered[i].kind = kind}
    IN  answered[CHOOSE i \in at : TRUE].table

(* C21: in heuristic mode the total reported (offset + returned rows) is  *)
(* a lower bound on the number of rows matching the effective condition:  *)
(* for every offset, limit and table content it never exceeds that        *)
(* number.  The code reports offset + 0 for an offset past the last row.  *)
C21_HeuristicTotalLowerBound ==
    (pc = "resolved" /\ ~CountMode) => ReportedTotal <= MetBy("rows")

-----------------------------------------------------------------------------
IsResult(r) == DOMAIN r \cap {"rows", "data", "total", "meta", "has_more"} # {}

KindsOf(qs) == {qs[i].kind : i \in 1..Len(qs)}

(* C22: if the row query or the count query fails, runListQuery fails     *)
(* with that query's error and returns no result, partial or other; each  *)
(* query is issued at most once per call, in either mode.                 *)
C22_FailureFailsTheCall ==
    /\ pc = "rejected" =>
          /\ ~IsResult(result)
          /\ issued # <<>> => \E q \in KindsOf(issued) : result = [error |-> q]
          /\ issued # <<>> => result.error \notin KindsOf(answered)
    /\ IsResult(result) =>
          /\ pc = "resolved"
          /\ pending = {}
          /\ KindsOf(answered) = KindsOf(issued)
    /\ Cardinality(KindsOf(issued)) = Len(issued)
    /\ Cardinality(KindsOf(answered)) = Len(answered)
    /\ pc \in {"awaiting", "resolved"} => Len(issued) = (IF CountMode THEN 2 ELSE 1)

\* The row query returned rows, the count query failed: the call failed
\* with the count query's error, the rows are not returned.
C22_CountFailsAfterRows ==
    /\ pc = "rejected"
    /\ CountMode
    /\ Len(rows) > 0
    /\ KindsOf(answered) = {"rows"}
    /\ result = [error |-> "count"]

-----------------------------------------------------------------------------
\* The page of a table of t matching rows: from offset on, at most limit.
PageOf(t) ==
    LET avail == IF t > parsed.offset THEN t - parsed.offset ELSE 0
        n     == IF avail < parsed.limit THEN avail ELSE parsed.limit
    IN  [i \in 1..n |-> parsed.offset + i]

(* C23: in exact mode the row query and the count query, exactly two      *)
(* queries, are issued before either is awaited; the result is produced   *)
(* only after both have completed and is the same whichever completes     *)
(* first: the rows are the row query's, the total the count query's.      *)
C23_BothQueriesThenResult ==
    CountMode =>
        /\ pc \in {"awaiting", "resolved"} =>
              /\ Len(issued) = 2
              /\ issued[1].kind = "rows"
              /\ issued[2].kind = "count"
              /\ pending \cup KindsOf(answered) = {"rows", "count"}
        /\ pc = "resolved" =>
              /\ pending = {}
              /\ Len(answered) = 2
              /\ ReportedRows = PageOf(MetBy("rows"))
              /\ ReportedTotal = (IF countRes = <<>> THEN 0 ELSE MetBy("count"))

\* The count query completed first and met another table than the row
\* query: rows and total are still each query's own.
C23_CountCompletesFirst ==
    /\ pc = "resolved"
    /\ CountMode
    /\ answered[1].kind = "count"
    /\ answered[2].kind = "rows"
    /\ answered[1].table # answered[2].table
    /\ Len(ReportedRows) > 0
    /\ ReportedRows = PageOf(answered[2].table)
    /\ ReportedTotal = answered[1].table

-----------------------------------------------------------------------------
(* C24: the row query and the count query share no transaction.  When no  *)
(* write takes effect between them (both meet the same table, and the     *)
(* count query returns its record), total is the number of matching rows  *)
(* and offset + returned rows <= total whenever rows are returned; a      *)
(* write between the two can leave a total that contradicts the rows.     *)
C24_ConsistentWithoutWriteBetween ==
    (/\ pc = "resolved" /\ CountMode
     /\ countRes # <<>>
     /\ MetBy("rows") = MetBy("count")) =>
        /\ ReportedTotal = MetBy("rows")
        /\ Len(ReportedRows) > 0 => parsed.offset + Len(ReportedRows) <= ReportedTotal

\* A row was deleted after the row query and before the count query: the
\* rows returned reach past the total.
C24_WriteBetweenQueries ==
    /\ pc = "resolved"
    /\ CountMode
    /\ countRes # <<>>
    /\ answered[1].kind = "rows"
    /\ answered[2].table < answered[1].table
    /\ Len(ReportedRows) > 0
    /\ parsed.offset + Len(ReportedRows) > ReportedTotal

-----------------------------------------------------------------------------
SortableColumns == {config.sortable[k] : k \in DOMAIN config.sortable}

(* C25: for every input and every config, orderBy is present and is an    *)
(* ordering, in the resolved direction, over a column that                *)
(* config.sortable maps some declared key to, also when the request falls *)
(* back to defaultSort.key.  The code looks the column up unchecked, so a *)
(* defaultSort.key outside sortable, or a sort value that names an        *)
(* inherited property, orders by something that is no declared column.    *)
C25_OrderByDeclaredColumn ==
    pc = "done" =>
        /\ parsed.orderBy.fn \in {"asc", "desc"}
        /\ parsed.orderBy.fn = parsed.sortDir
        /\ parsed.orderBy.column \in SortableColumns

-----------------------------------------------------------------------------
\* The condition of a base condition and a query's condition together.
Composed(b, w) ==
    IF b.present /\ w.present THEN And(<<b, w>>) ELSE IF b.present THEN b ELSE w

\* The row query of a parsed query under the call's base condition.
RowQueryOf(q) ==
    [kind |-> "rows",
     where |-> Composed(IF "baseWhere" \in DOMAIN opts THEN opts.baseWhere ELSE NoWhere, q.where),
     orderBy |-> q.orderBy, limit |-> q.limit, offset |-> q.offset]

(* C26: given a pre-parsed query, runListQuery uses its where, orderBy,   *)
(* limit and offset unchanged and ignores an input and config given as    *)
(* well; given only input and config it behaves as if called with         *)
(* parseListQuery(input, config).  The row query is the same in exact and *)
(* in heuristic mode.                                                     *)
C26_QueryUsedAsGiven ==
    /\ pc \in {"awaiting", "resolved"} =>
          /\ "query" \in DOMAIN opts => issued[1] = RowQueryOf(opts.query)
          /\ "query" \notin DOMAIN opts =>
                issued[1] = RowQueryOf(parseListQuery(opts.input, opts.config))
    /\ (pc = "rejected" /\ issued = <<>>) =>
          /\ "query" \notin DOMAIN opts
          /\ parseListQuery(opts.input, opts.config).threw
    /\ pc = "resolved" =>
          /\ Len(ReportedRows) <= issued[1].limit
          /\ IsEnvelope(result) =>
                /\ result.meta.limit = issued[1].limit
                /\ result.meta.offset = issued[1].offset

\* A hand-written query with limit 0 next to an input asking for limit 2:
\* the row query asks for 0 rows, ordered as the query says.
C26_GivenQueryWinsOverInput ==
    /\ pc = "resolved"
    /\ "query" \in DOMAIN opts
    /\ "input" \in DOMAIN opts
    /\ parseListQuery(opts.input, opts.config).limit = 2
    /\ issued[1].limit = 0
    /\ issued[1].orderBy = [fn |-> "asc", column |-> "title"]
    /\ ReportedRows = <<>>

====
